---- MODULE Spec2Model ----
(***************************************************************************)
(* Model of the portfolio page script in its two versions:                 *)
(*   "percard"   = src/assets/script.js   (listeners on every card)        *)
(*   "delegated" = src/unnamed/part_000   (listeners on the wrapper,       *)
(*                 debounced query box, focus trap, error placeholder)     *)
(* A JavaScript string is a sequence of one-character strings, a           *)
(* publication record is a TLA+ record whose DOMAIN holds exactly the      *)
(* properties the JSON object has (a missing property reads undefined).    *)
(* Every record carries an id, which stands for the identity of the        *)
(* object JSON.parse created for it.                                       *)
(* The page markup is not part of the sources: every element the script    *)
(* looks up is taken to exist, the modal starts hidden, and the initial    *)
(* visibility of #paper-doi is left open.                                  *)
(***************************************************************************)
EXTENDS Integers, Sequences, FiniteSets, TLC

\* ---------------------------------------------------------------- bounds
MaxLen == 3          \* longest publications.json array explored
MaxListeners == 2    \* wrapper listeners are counted up to this many ("or more")
MaxTraps == 2        \* focus-trap listeners are counted up to this many ("or more")
MaxPending == 1      \* cap on copies in progress: writes in flight plus armed revert timers

\* ---------------------------------------------------------------- strings
EmptyStr == << >>
Space == " "
UndefinedStr == <<"u", "n", "d", "e", "f", "i", "n", "e", "d">>

Upper == <<"A", "B", "C", "N", "J">>
LowerOf == <<"a", "b", "c", "n", "j">>

\* String.prototype.toLowerCase on one character
LowerChar(c) ==
  IF \E i \in DOMAIN Upper : Upper[i] = c
    THEN LowerOf[CHOOSE i \in DOMAIN Upper : Upper[i] = c]
    ELSE c

\* String.prototype.toLowerCase
ToLowerCase(s) == [i \in DOMAIN s |-> LowerChar(s[i])]

\* String.prototype.trim
RECURSIVE TrimStart(_)
TrimStart(s) ==
  IF s # EmptyStr /\ Head(s) = Space THEN TrimStart(Tail(s)) ELSE s

RECURSIVE TrimEnd(_)
TrimEnd(s) ==
  IF s # EmptyStr /\ s[Len(s)] = Space
    THEN TrimEnd(SubSeq(s, 1, Len(s) - 1))
    ELSE s

Trim(s) == TrimEnd(TrimStart(s))

\* String.prototype.startsWith
StartsWith(s, pre) ==
  Len(pre) <= Len(s) /\ SubSeq(s, 1, Len(pre)) = pre

\* String.prototype.includes
Includes(s, sub) ==
  \E k \in 0..(Len(s) - Len(sub)) : SubSeq(s, k + 1, k + Len(sub)) = sub

\* s.split(" ")[0]
RECURSIVE FirstWord(_)
FirstWord(s) ==
  IF s = EmptyStr \/ Head(s) = Space
    THEN EmptyStr
    ELSE <<Head(s)>> \o FirstWord(Tail(s))

Digits == <<"0", "1", "2", "3", "4", "5", "6", "7", "8", "9">>

\* String(n) for a non-negative integer
RECURSIVE NatToString(_)
NatToString(n) ==
  IF n < 10
    THEN <<Digits[n + 1]>>
    ELSE NatToString(n \div 10) \o <<Digits[(n % 10) + 1]>>

\* Array.prototype.join
RECURSIVE Join(_, _)
Join(parts, sep) ==
  IF parts = << >> THEN EmptyStr
  ELSE IF Len(parts) = 1 THEN parts[1]
  ELSE parts[1] \o sep \o Join(Tail(parts), sep)

\* Collation used by String.prototype.localeCompare: letters are compared
\* regardless of case first, and only strings equal up to case are ordered
\* by case, lower case first.
Alphabet == <<" ", "<", "a", "b", "c", "e", "j", "n">>
Rank(c) == CHOOSE i \in DOMAIN Alphabet : Alphabet[i] = LowerChar(c)
CaseRank(c) == IF LowerChar(c) = c THEN 0 ELSE 1

\* lexicographic comparison of two sequences of integer keys: -1, 0 or 1
RECURSIVE LexCompare(_, _)
LexCompare(s, t) ==
  IF s = << >> /\ t = << >> THEN 0
  ELSE IF s = << >> THEN -1
  ELSE IF t = << >> THEN 1
  ELSE IF Head(s) < Head(t) THEN -1
  ELSE IF Head(s) > Head(t) THEN 1
  ELSE LexCompare(Tail(s), Tail(t))

localeCompare(s, t) ==
  LET primary == LexCompare([i \in DOMAIN s |-> Rank(s[i])],
                            [i \in DOMAIN t |-> Rank(t[i])])
  IN  IF primary # 0
        THEN primary
        ELSE LexCompare([i \in DOMAIN s |-> CaseRank(s[i])],
                        [i \in DOMAIN t |-> CaseRank(t[i])])

\* ---------------------------------------------------------------- records
\* Publication records the data source may serve.  P1 has every optional
\* property but bibtex, P2 and P3 share a year, P4 has no year.
P1 == [id |-> 1, title |-> <<"N", "e">>, authors |-> <<"A", "l", " ", "B">>,
       abstract |-> <<"x">>, venue |-> <<"J">>, year |-> 2021,
       doi |-> <<"1", "0", ".", "1">>, link |-> <<"h", "t", "t", "p", ":", "l">>]
P2 == [id |-> 2, title |-> <<"a", "b">>, year |-> 2020,
       doi |-> <<"h", "t", "t", "p", "s", ":", "d">>, bibtex |-> <<"@", "b">>]
P3 == [id |-> 3, title |-> <<"C", "n">>, authors |-> <<"A", "l">>, year |-> 2020]
P4 == [id |-> 4, title |-> <<"B", "n">>, venue |-> <<"J">>]
Papers == {P1, P2, P3, P4}

\* Records whose values hold markup characters.  The data source is not
\* validated, so year may be served as a JSON string: yearText stands for a
\* year property whose value is a string that is not numeric.
M1 == [id |-> 5, title |-> <<"<", "a">>, authors |-> <<"&", "b">>,
       yearText |-> <<"<", "b">>]
M2 == [id |-> 6, title |-> <<"a">>, abstract |-> <<"<", "a", ">">>, year |-> 2020]
MarkupPapers == {M1, M2}

\* values typed into #filter-query
Queries == {EmptyStr, <<" ", "N", " ">>, <<"e", " ", "a">>}

Has(p, f) == f \in DOMAIN p

\* `${p.f}` : a missing property interpolates as "undefined"
Interp(p, f) == IF Has(p, f) THEN p[f] ELSE UndefinedStr

\* p.f || "" and p.f ?? "" for a text property
OrEmpty(p, f) == IF Has(p, f) THEN p[f] ELSE EmptyStr

\* String(p.year), `${p.year}`
YearString(p) ==
  IF Has(p, "year") THEN NatToString(p.year)
  ELSE IF Has(p, "yearText") THEN p.yearText
  ELSE UndefinedStr

\* p.year || ""
YearOrEmpty(p) ==
  IF Has(p, "year") /\ p.year # 0 THEN NatToString(p.year)
  ELSE IF Has(p, "yearText") THEN p.yearText
  ELSE EmptyStr

Range(s) == {s[i] : i \in DOMAIN s}

Min(a, b) == IF a < b THEN a ELSE b

\* sequences over S without repetition, of length at most n
InjectiveSeqs(S, n) ==
  UNION {{s \in [1..k -> S] : \A i, j \in 1..k : s[i] = s[j] => i = j}
          : k \in 0..n}

\* ---------------------------------------------------------------- sorting
\* (a, b) => (b.year - a.year) || a.title.localeCompare(b.title)
\* b.year - a.year is NaN when either year is missing; NaN and 0 are falsy.
compareFn(a, b) ==
  IF Has(a, "year") /\ Has(b, "year") /\ b.year - a.year # 0
    THEN b.year - a.year
    ELSE localeCompare(a.title, b.title)

\* a comparator as a table over the pairs of S
CompareTable(S) == [pr \in S \X S |-> compareFn(pr[1], pr[2])]

\* ECMAScript: the comparator tabulated in cmp is a consistent comparator
\* for the set of values S
ConsistentBy(S, cmp) ==
  /\ \A a \in S : cmp[<<a, a>>] = 0
  /\ \A a, b \in S :
       /\ cmp[<<a, b>>] = 0 => cmp[<<b, a>>] = 0
       /\ cmp[<<a, b>>] < 0 => cmp[<<b, a>>] > 0
       /\ cmp[<<a, b>>] > 0 => cmp[<<b, a>>] < 0
  /\ \A a, b, c \in S :
       /\ cmp[<<a, b>>] = 0 /\ cmp[<<b, c>>] = 0 => cmp[<<a, c>>] = 0
       /\ cmp[<<a, b>>] < 0 /\ cmp[<<b, c>>] < 0 => cmp[<<a, c>>] < 0
       /\ cmp[<<a, b>>] > 0 /\ cmp[<<b, c>>] > 0 => cmp[<<a, c>>] > 0

ConsistentComparator(S) == ConsistentBy(S, CompareTable(S))

IndexPermutations(n) ==
  {f \in [1..n -> 1..n] : \A i, j \in 1..n : f[i] = f[j] => i = j}

\* Array.prototype.sort with the comparator tabulated in cmp: the arrays the
\* call may leave behind.  With a consistent comparator the result is the
\* stable sorted order; with an inconsistent one ECMAScript leaves the order
\* to the implementation.
SortOutcomesBy(arr, cmp) ==
  LET n == Len(arr)
      consistent == ConsistentBy(Range(arr), cmp)
      Sorted(f) ==
        \A i, j \in 1..n :
          i < j =>
            \/ cmp[<<arr[f[i]], arr[f[j]]>>] < 0
            \/ cmp[<<arr[f[i]], arr[f[j]]>>] = 0 /\ f[i] < f[j]
  IN  {[i \in 1..n |-> arr[f[i]]] :
         f \in {g \in IndexPermutations(n) : consistent => Sorted(g)}}

SortOutcomes(arr) == SortOutcomesBy(arr, CompareTable(Range(arr)))

\* ---------------------------------------------------------------- filtering
\* `${p.title} ${p.authors ?? ""} ${p.abstract ?? ""} ${p.venue ?? ""}`
FilterText(p) ==
  Interp(p, "title") \o <<Space>> \o OrEmpty(p, "authors") \o <<Space>>
    \o OrEmpty(p, "abstract") \o <<Space>> \o OrEmpty(p, "venue")

\* mutant of MatchesFilter: the record's text is not lower-cased
MatchesFilterCaseSensitive(p, yearVal, query) ==
  LET matchYear == yearVal = EmptyStr \/ YearString(p) = yearVal
      text == FilterText(p)
      matchQuery == query = EmptyStr \/ Includes(text, query)
  IN  matchYear /\ matchQuery

\* the predicate of applyFilters, yearVal and query as read from the controls
\* (query already trimmed and lower-cased)
MatchesFilter(p, yearVal, query) ==
  LET matchYear == yearVal = EmptyStr \/ YearString(p) = yearVal
      text == ToLowerCase(FilterText(p))
      matchQuery == query = EmptyStr \/ Includes(text, query)
  IN  matchYear /\ matchQuery

\* Array.prototype.filter
RECURSIVE FilterSeq(_, _, _)
FilterSeq(arr, yearVal, query) ==
  IF arr = << >> THEN << >>
  ELSE IF MatchesFilter(Head(arr), yearVal, query)
    THEN <<Head(arr)>> \o FilterSeq(Tail(arr), yearVal, query)
    ELSE FilterSeq(Tail(arr), yearVal, query)

\* p.year as a value: a number, a text, or (<< >>) undefined
YearValueOf(p) ==
  IF Has(p, "year") THEN <<[num |-> p.year]>>
  ELSE IF Has(p, "yearText") THEN <<[text |-> p.yearText]>>
  ELSE << >>

\* [...new Set(items.map(p => p.year))] without undefined: the distinct
\* values in the order of their first appearance
RECURSIVE DistinctYears(_, _)
DistinctYears(items, seen) ==
  IF items = << >> THEN << >>
  ELSE LET v == YearValueOf(Head(items))
       IN  IF v = << >> \/ v[1] \in seen
             THEN DistinctYears(Tail(items), seen)
             ELSE v \o DistinctYears(Tail(items), seen \cup {v[1]})

\* (a, b) => b - a; NaN counts as 0 for the sort
yearDiff(a, b) ==
  IF "num" \in DOMAIN a /\ "num" \in DOMAIN b THEN b.num - a.num ELSE 0

\* `${y}`
YearText(y) == IF "num" \in DOMAIN y THEN NatToString(y.num) ELSE y.text

\* the texts populateYearFilter may interpolate, in option order, after the
\* "All" option: the sorted distinct years (sort moves undefined to the end)
YearOptionOutcomes(items) ==
  {<<EmptyStr>>
     \o [i \in DOMAIN ys |-> YearText(ys[i])]
     \o (IF \E i \in DOMAIN items : YearValueOf(items[i]) = << >>
           THEN <<UndefinedStr>> ELSE << >>)
   : ys \in LET ds == DistinctYears(items, {})
                IN  SortOutcomesBy(ds, [pr \in Range(ds) \X Range(ds)
                                          |-> yearDiff(pr[1], pr[2])])}

\* ---------------------------------------------------------------- rendering
\* escapeHTML: the five markup characters become entities
EscapeChar(c) ==
  CASE c = "&" -> <<"&", "a", "m", "p", ";">>
    [] c = "<" -> <<"&", "l", "t", ";">>
    [] c = ">" -> <<"&", "g", "t", ";">>
    [] c = "\"" -> <<"&", "q", "u", "o", "t", ";">>
    [] c = "'" -> <<"&", "#", "3", "9", ";">>
    [] OTHER -> <<c>>

RECURSIVE escapeHTML(_)
escapeHTML(str) ==
  IF str = EmptyStr THEN EmptyStr
  ELSE EscapeChar(Head(str)) \o escapeHTML(Tail(str))

\* Array.prototype.indexOf, by object identity; -1 when absent
IndexOf(arr, p) ==
  IF \E i \in DOMAIN arr : arr[i].id = p.id
    THEN CHOOSE i \in DOMAIN arr :
           arr[i].id = p.id /\ \A j \in DOMAIN arr : arr[j].id = p.id => i <= j
    ELSE -1

\* the text renderShelf puts into one card's innerHTML, and the record shown
CardMarkup(p) ==
  [title |-> escapeHTML(Interp(p, "title")),
   meta |-> escapeHTML(OrEmpty(p, "authors")),
   abstract |-> escapeHTML(OrEmpty(p, "abstract")),
   year |-> YearOrEmpty(p),
   shows |-> p.id]

\* ---------------------------------------------------------------- modal
DoiResolver == <<"h", "t", "t", "p", "s", ":", "/", "/", "d", "o", "i", ".", "o", "r", "g", "/">>
\* the separator " \u00B7 " (space, middle dot, space)
MiddleDot == <<" ", "\\u00B7", " ">>

\* [paper.venue, paper.year].filter(Boolean).join(" · ")
VenueLine(paper) ==
  Join((IF OrEmpty(paper, "venue") # EmptyStr THEN <<paper.venue>> ELSE << >>)
         \o (IF YearOrEmpty(paper) # EmptyStr THEN <<YearOrEmpty(paper)>> ELSE << >>),
       MiddleDot)

\* paper.doi.startsWith("http") ? paper.doi : `https://doi.org/${paper.doi}`
DoiHref(doi) ==
  IF StartsWith(doi, <<"h", "t", "t", "p">>) THEN doi ELSE DoiResolver \o doi

\* the text the copy handler hands to navigator.clipboard.writeText
BibtexOf(paper) ==
  IF OrEmpty(paper, "bibtex") # EmptyStr
    THEN paper.bibtex
    ELSE <<"@", "a", "r", "t", "i", "c", "l", "e", "{">>
           \o (IF Has(paper, "authors") /\ FirstWord(paper.authors) # EmptyStr
                 THEN FirstWord(paper.authors) ELSE <<"r", "e", "f">>)
           \o YearOrEmpty(paper)
           \o <<",", "\n", " ", " ", "t", "i", "t", "l", "e", "=", "{">> \o Interp(paper, "title")
           \o <<"}", ",", "\n", " ", " ", "a", "u", "t", "h", "o", "r", "=", "{">> \o Interp(paper, "authors")
           \o <<"}", ",", "\n", " ", " ", "y", "e", "a", "r", "=", "{">> \o YearString(paper)
           \o <<"}", ",", "\n", " ", " ", "j", "o", "u", "r", "n", "a", "l", "=", "{">> \o OrEmpty(paper, "venue")
           \o <<"}", "\n", "}">>

\* ---------------------------------------------------------------- state
VARIABLES
  variant,          \* "percard" (assets/script.js) or "delegated" (part_000)
  cssShowsDoi,      \* the page shows #paper-doi while its inline display is ""
  phase,            \* "loading", "ready", "failed" (returned early), "threw"
  publications,     \* state.publications, when it is an array
  pubIsArray,       \* FALSE when state.publications holds a non-array value
  filtered,         \* state.filtered
  yearOptions,      \* option values of #filter-year
  yearVal,          \* #filter-year value
  queryVal,         \* #filter-query value
  filtersOn,        \* initFilters has attached the control listeners
  debounce,         \* armed timeouts of the debounced applyFilters
  shelf,            \* what #shelf-wrapper holds: "static", "loading", "error", "cards"
  cards,            \* the cards in #shelf-wrapper
  wrapperListeners, \* click (and keydown) listeners attached to #shelf-wrapper
  modal,            \* #paper-modal and its fields
  bodyOverflow,     \* document.body.style.overflow
  escListener,      \* escToClose is registered on document
  closeOnclick,     \* the [data-close-modal] buttons have onclick = closeModal
  trapHandlers,     \* handleFocusTrap closures attached to the modal
  bibOnclick,       \* << >>, or <<paper>> the #copy-bibtex onclick closes over
  bibLabel,         \* text of #copy-bibtex
  writes,           \* clipboard writes in flight
  timers,           \* armed "revert label" timeouts
  clipboard,        \* << >>, or <<text>> last written
  opened            \* << >>, or <<paper>> of the latest openModal call

vars == <<variant, cssShowsDoi, phase, publications, pubIsArray, filtered,
          yearOptions, yearVal, queryVal, filtersOn, debounce, shelf, cards,
          wrapperListeners, modal, bodyOverflow, escListener, closeOnclick,
          trapHandlers, bibOnclick, bibLabel, writes, timers, clipboard,
          opened>>

envVars == <<variant, cssShowsDoi>>
loadVars == <<phase, publications, pubIsArray, yearOptions, filtersOn>>
shelfVars == <<filtered, shelf, cards, wrapperListeners>>
modalVars == <<modal, bodyOverflow, escListener, closeOnclick, trapHandlers,
               bibOnclick, opened>>
copyVars == <<bibLabel, writes, timers, clipboard>>

Init ==
  /\ variant \in {"percard", "delegated"}
  /\ cssShowsDoi \in BOOLEAN
  /\ phase = "loading"
  /\ publications = << >>
  /\ pubIsArray = TRUE
  /\ filtered = << >>
  /\ yearOptions = <<EmptyStr>>
  /\ yearVal = EmptyStr
  /\ queryVal = EmptyStr
  /\ filtersOn = FALSE
  /\ debounce = 0
  /\ shelf = IF variant = "delegated" THEN "loading" ELSE "static"
  /\ cards = << >>
  /\ wrapperListeners = 0
  /\ modal = [ariaHidden |-> "true", title |-> EmptyStr, authors |-> EmptyStr,
              venue |-> EmptyStr, abstract |-> EmptyStr,
              doiHref |-> <<"#">>, doiDisplay |-> "",
              linkHref |-> <<"#">>, linkDisplay |-> ""]
  /\ bodyOverflow = ""
  /\ escListener = FALSE
  /\ closeOnclick = FALSE
  /\ trapHandlers = 0
  /\ bibOnclick = << >>
  /\ bibLabel = "Copy BibTeX"
  /\ writes = << >>
  /\ timers = 0
  /\ clipboard = << >>
  /\ opened = << >>

\* ---------------------------------------------------------------- shelf
\* percard: the listeners of the card close over p
CardWithListeners(p) == [markup |-> CardMarkup(p), p |-> p]

\* mutant of CardWithIndex: the index is taken in the full list
CardWithIndexInFullList(p, stateFiltered) ==
  [markup |-> CardMarkup(p), paperIndex |-> IndexOf(publications, p)]

\* delegated: card.dataset.paperIndex = state.filtered.indexOf(p)
CardWithIndex(p, stateFiltered) ==
  [markup |-> CardMarkup(p), paperIndex |-> IndexOf(stateFiltered, p)]

\* renderShelf(items), called while state.filtered is stateFiltered
renderShelf(items, stateFiltered) ==
  /\ shelf' = "cards"
  /\ cards' = [i \in DOMAIN items |->
                 IF variant = "percard"
                   THEN CardWithListeners(items[i])
                   ELSE CardWithIndex(items[i], stateFiltered)]
  /\ wrapperListeners' =
       IF variant = "delegated"
         THEN Min(wrapperListeners + 1, MaxListeners)
         ELSE wrapperListeners

\* mutant of FilteredList: the result is built back to front
FilteredListReversed(yearCtl, queryCtl) ==
  LET kept == FilterSeq(publications, yearCtl, ToLowerCase(Trim(queryCtl)))
  IN  [i \in DOMAIN kept |-> kept[Len(kept) + 1 - i]]

\* mutant of FilteredList: the previous result is narrowed, not the full list
FilteredListNarrowing(yearCtl, queryCtl) ==
  FilterSeq(filtered, yearCtl, ToLowerCase(Trim(queryCtl)))

\* the array applyFilters computes from the control values it reads
FilteredList(yearCtl, queryCtl) ==
  FilterSeq(publications, yearCtl, ToLowerCase(Trim(queryCtl)))

\* applyFilters(), the controls holding yearCtl and queryCtl
applyFilters(yearCtl, queryCtl) ==
  /\ filtered' = FilteredList(yearCtl, queryCtl)
  /\ renderShelf(filtered', filtered')

\* ---------------------------------------------------------------- init handler
\* the handler from the sort on: sort, copy, populateYearFilter, renderShelf,
\* initFilters
FinishLoad(loaded) ==
  \E sorted \in SortOutcomes(loaded) :
    /\ publications' = sorted
    /\ pubIsArray' = TRUE
    /\ filtered' = sorted
    /\ yearOptions' \in YearOptionOutcomes(sorted)
    /\ yearVal' = EmptyStr
    /\ renderShelf(sorted, sorted)
    /\ filtersOn' = TRUE
    /\ phase' = "ready"

\* fetch resolves and res.json() yields an array of records
LoadArray ==
  /\ phase = "loading"
  /\ \E payload \in InjectiveSeqs(Papers, MaxLen) : FinishLoad(payload)
  /\ UNCHANGED <<envVars, queryVal, debounce, modalVars, copyVars>>

\* fetch resolves and res.json() yields an array of records whose values
\* hold markup characters
LoadMarkup ==
  /\ phase = "loading"
  /\ \E payload \in InjectiveSeqs(MarkupPapers, MaxLen) : FinishLoad(payload)
  /\ UNCHANGED <<envVars, queryVal, debounce, modalVars, copyVars>>

\* fetch rejects, or res.json() rejects on a body that is not JSON
LoadFails ==
  /\ phase = "loading"
  /\ IF variant = "percard"
       THEN FinishLoad(<< >>)
       ELSE /\ shelf' = "error"
            /\ publications' = << >>
            /\ pubIsArray' = TRUE
            /\ phase' = "failed"
            /\ UNCHANGED <<filtered, yearOptions, yearVal, cards,
                           wrapperListeners, filtersOn>>
  /\ UNCHANGED <<envVars, queryVal, debounce, modalVars, copyVars>>

\* res.json() yields a JSON value that is not an array: the assignment is
\* made, and state.publications.sort is not a function
LoadNotArray ==
  /\ phase = "loading"
  /\ publications' = << >>
  /\ pubIsArray' = FALSE
  /\ phase' = "threw"
  /\ UNCHANGED <<envVars, filtered, yearOptions, yearVal, queryVal, filtersOn,
                 debounce, shelf, cards, wrapperListeners, modalVars, copyVars>>

\* ---------------------------------------------------------------- controls
\* the user picks another option of #filter-year: change event
ChangeYear ==
  \E v \in Range(yearOptions) :
    /\ v # yearVal
    /\ yearVal' = v
    /\ IF filtersOn
         THEN applyFilters(v, queryVal)
         ELSE UNCHANGED shelfVars
    /\ UNCHANGED <<envVars, loadVars, queryVal, debounce, modalVars, copyVars>>

\* mutant of TimeoutsAfterInput: the timeout armed earlier is not cleared
TimeoutsWithoutClear(armed) == IF armed = 0 THEN 1 ELSE 2

\* executedFunction of debounce: clearTimeout(timeout), then setTimeout; the
\* number of timeouts armed afterwards, given the number armed before
TimeoutsAfterInput(armed) == 1

\* mutant of InputQuery: the input listener is attached before the fetch
InputQueryBeforeInit ==
  \E q \in Queries :
    /\ queryVal' = q
    /\ IF variant = "percard"
         THEN applyFilters(yearVal, q)
              /\ UNCHANGED debounce
         ELSE debounce' = TimeoutsAfterInput(debounce)
              /\ UNCHANGED shelfVars
    /\ UNCHANGED <<envVars, loadVars, yearVal, modalVars, copyVars>>

\* the user edits #filter-query: input event
InputQuery ==
  \E q \in Queries :
    /\ queryVal' = q
    /\ IF ~filtersOn
         THEN UNCHANGED <<shelfVars, debounce>>
         ELSE IF variant = "percard"
           THEN applyFilters(yearVal, q)
                /\ UNCHANGED debounce
           ELSE debounce' = TimeoutsAfterInput(debounce)
                /\ UNCHANGED shelfVars
    /\ UNCHANGED <<envVars, loadVars, yearVal, modalVars, copyVars>>

\* a timeout of the debounced applyFilters expires
DebounceFire ==
  /\ debounce > 0
  /\ debounce' = debounce - 1
  /\ applyFilters(yearVal, queryVal)
  /\ UNCHANGED <<envVars, loadVars, yearVal, queryVal, modalVars, copyVars>>

\* ---------------------------------------------------------------- modal
\* the #paper-doi part of openModal; part_000 has none
DoiAfterOpen(m, paper) ==
  IF variant = "percard"
    THEN IF OrEmpty(paper, "doi") # EmptyStr
           THEN [m EXCEPT !.doiHref = DoiHref(paper.doi),
                          !.doiDisplay = "inline-block"]
           ELSE [m EXCEPT !.doiDisplay = "none"]
    ELSE m

\* the #paper-link part of openModal
LinkAfterOpen(m, paper) ==
  IF OrEmpty(paper, "link") # EmptyStr
    THEN [m EXCEPT !.linkHref = paper.link, !.linkDisplay = "inline-block"]
    ELSE [m EXCEPT !.linkDisplay = "none"]

\* the modal after openModal(paper)
ModalAfterOpen(m, paper) ==
  LinkAfterOpen(
    DoiAfterOpen(
      [m EXCEPT !.title = OrEmpty(paper, "title"),
                !.authors = OrEmpty(paper, "authors"),
                !.venue = VenueLine(paper),
                !.abstract = OrEmpty(paper, "abstract"),
                !.ariaHidden = "false"],
      paper),
    paper)

\* mutant of BibOnclickAfterOpen: the handler is only set while there is none
BibOnclickSetOnce(old, paper) == IF old = << >> THEN <<paper>> ELSE old

\* the handler #copy-bibtex has after openModal(paper), given the one it had
BibOnclickAfterOpen(old, paper) == <<paper>>

\* openModal(paper), run by each of `times` listeners of one event
openModal(paper, times) ==
  /\ modal' = ModalAfterOpen(modal, paper)
  /\ bodyOverflow' = "hidden"
  /\ closeOnclick' = TRUE
  /\ escListener' = TRUE
  /\ trapHandlers' =
       IF variant = "delegated"
         THEN Min(trapHandlers + times, MaxTraps)
         ELSE trapHandlers
  /\ bibOnclick' = BibOnclickAfterOpen(bibOnclick, paper)
  /\ opened' = <<paper>>

\* mutant of EscListenerAfterClose: the listener is not removed
EscListenerKept(registered) == registered

\* document.removeEventListener("keydown", escToClose) in closeModal
EscListenerAfterClose(registered) == FALSE

\* closeModal(); part_000 also removes the top-level handleFocusTrap, which
\* was never attached: the closures openModal attached stay
closeModal ==
  /\ modal' = [modal EXCEPT !.ariaHidden = "true"]
  /\ bodyOverflow' = ""
  /\ escListener' = EscListenerAfterClose(escListener)
  /\ UNCHANGED <<closeOnclick, trapHandlers, bibOnclick, opened>>

\* mutant of ActivatedPaper: the delegated listeners look the index up in
\* state.publications
ActivatedPaperInFullList(i) ==
  IF variant = "percard"
    THEN <<cards[i].p>>
    ELSE IF cards[i].paperIndex \in DOMAIN publications
      THEN <<publications[cards[i].paperIndex]>>
      ELSE << >>

\* the record the listeners of card i hand to openModal: the p they close
\* over (percard), state.filtered[parseInt(card.dataset.paperIndex)]
\* (delegated); << >> when that element is undefined
ActivatedPaper(i) ==
  IF variant = "percard"
    THEN <<cards[i].p>>
    ELSE IF cards[i].paperIndex \in DOMAIN filtered
      THEN <<filtered[cards[i].paperIndex]>>
      ELSE << >>

\* how many listeners call openModal for one activation of a card: the one
\* listener of the card or of its button (percard), every click (or keydown)
\* listener renderShelf has added to the wrapper so far (delegated)
OpenModalCalls == IF variant = "percard" THEN 1 ELSE wrapperListeners

\* card i is activated: a click on the card, Enter on the card, or a click
\* on its Details button.  percard: the card's listener for that event runs
\* openModal(p).  delegated: every listener renderShelf has put on the wrapper
\* for that event runs openModal(state.filtered[...]).
ActivateCard(i) ==
  /\ i \in DOMAIN cards
  /\ IF ActivatedPaper(i) = << >>
       THEN UNCHANGED modalVars   \* openModal(undefined) throws on paper.title
       ELSE openModal(ActivatedPaper(i)[1], OpenModalCalls)
  /\ UNCHANGED <<envVars, loadVars, shelfVars, yearVal, queryVal, debounce,
                 copyVars>>

Activate == \E i \in DOMAIN cards : ActivateCard(i)

\* a [data-close-modal] button of the visible modal is clicked
CloseClick ==
  /\ modal.ariaHidden = "false"
  /\ closeOnclick
  /\ closeModal
  /\ UNCHANGED <<envVars, loadVars, shelfVars, yearVal, queryVal, debounce,
                 copyVars>>

\* Escape is pressed: keydown on document, seen by escToClose if registered
PressEscape ==
  /\ IF escListener THEN closeModal ELSE UNCHANGED modalVars
  /\ UNCHANGED <<envVars, loadVars, shelfVars, yearVal, queryVal, debounce,
                 copyVars>>

\* ---------------------------------------------------------------- copy
\* #copy-bibtex of the visible modal is clicked
CopyClick ==
  /\ modal.ariaHidden = "false"
  /\ bibOnclick # << >>
  /\ Len(writes) + timers < MaxPending
  /\ writes' = Append(writes, BibtexOf(bibOnclick[1]))
  /\ UNCHANGED <<envVars, loadVars, shelfVars, yearVal, queryVal, debounce,
                 modalVars, bibLabel, timers, clipboard>>

\* mutant of WriteResolves: the then-callback sets the label and no timeout
WriteResolvesWithoutTimeout ==
  /\ writes # << >>
  /\ clipboard' = <<Head(writes)>>
  /\ writes' = Tail(writes)
  /\ bibLabel' = "Copied"
  /\ UNCHANGED <<envVars, loadVars, shelfVars, yearVal, queryVal, debounce,
                 modalVars, timers>>

\* writeText resolves: the text is on the clipboard and the then-callback runs
WriteResolves ==
  /\ writes # << >>
  /\ clipboard' = <<Head(writes)>>
  /\ writes' = Tail(writes)
  /\ bibLabel' = "Copied"
  /\ timers' = timers + 1
  /\ UNCHANGED <<envVars, loadVars, shelfVars, yearVal, queryVal, debounce,
                 modalVars>>

\* writeText rejects: nothing handles the rejection
WriteRejects ==
  /\ writes # << >>
  /\ writes' = Tail(writes)
  /\ UNCHANGED <<envVars, loadVars, shelfVars, yearVal, queryVal, debounce,
                 modalVars, bibLabel, timers, clipboard>>

\* a 2000 ms timeout set by the then-callback expires
RevertLabel ==
  /\ timers > 0
  /\ timers' = timers - 1
  /\ bibLabel' = "Copy BibTeX"
  /\ UNCHANGED <<envVars, loadVars, shelfVars, yearVal, queryVal, debounce,
                 modalVars, writes, clipboard>>

\* ---------------------------------------------------------------- system
Loading == LoadArray \/ LoadFails \/ LoadNotArray
LoadingMarkup == LoadMarkup
Filtering == ChangeYear \/ InputQuery \/ DebounceFire
Viewing == Activate \/ CloseClick \/ PressEscape
Copying == CopyClick \/ WriteResolves \/ WriteRejects \/ RevertLabel

Next == Loading \/ LoadingMarkup \/ Filtering \/ Viewing \/ Copying

Spec == Init /\ [][Next]_vars

\* What the stylesheet does with #paper-doi bears only on whether the open
\* modal displays the DOI link: SpecModalAnyStyle leaves it open, the other
\* specifications start from the pages whose stylesheet hides the link.
InitDoiHidden == Init /\ ~cssShowsDoi

\* the page while only the filter controls are used
NextShelf == Loading \/ Filtering
SpecShelf == InitDoiHidden /\ [][NextShelf]_vars

\* the page while the filter controls and the modal are used, not the copy button
NextModal == Loading \/ Filtering \/ Viewing
SpecModal == InitDoiHidden /\ [][NextModal]_vars
SpecModalAnyStyle == Init /\ [][NextModal]_vars

\* the page while the modal and its copy button are used, not the filter controls
NextCopy == Loading \/ Viewing \/ Copying
SpecCopy == InitDoiHidden /\ [][NextCopy]_vars

\* the page fed records with markup in their values, the filter controls used
NextRender == Loading \/ LoadingMarkup \/ Filtering
SpecRender == InitDoiHidden /\ [][NextRender]_vars

\* SpecShelf with the scheduling of timeouts: a timeout that is armed expires
SpecShelfLive == SpecShelf /\ WF_vars(DebounceFire)

\* SpecCopy with the scheduling of timeouts: a timeout that is armed expires
SpecCopyLive == SpecCopy /\ WF_vars(RevertLabel)

\* the page after a successful load while the year selector, the cards and
\* the close affordances are used
NextActivation == LoadArray \/ ChangeYear \/ Activate \/ CloseClick \/ PressEscape
SpecActivation == InitDoiHidden /\ [][NextActivation]_vars

\* ================================================================ claims
\* some handler has just run applyFilters: a change of #filter-year, an input
\* to #filter-query (percard) or the expiry of the debounce timeout (delegated)
AppliesFilters ==
  /\ filtersOn
  /\ \/ ChangeYear
     \/ DebounceFire
     \/ variant = "percard" /\ InputQuery

\* the pass condition in the words of the filter's description: the year
\* selector is empty or String(p.year) equals it, and the trimmed query is
\* empty or the lower-cased text of title, authors, abstract and venue
\* contains the lower-cased trimmed query
Passes(p, yearCtl, queryCtl) ==
  /\ yearCtl = EmptyStr \/ YearString(p) = yearCtl
  /\ \/ Trim(queryCtl) = EmptyStr
     \/ Includes(ToLowerCase(p.title \o <<Space>> \o OrEmpty(p, "authors")
                               \o <<Space>> \o OrEmpty(p, "abstract")
                               \o <<Space>> \o OrEmpty(p, "venue")),
                 ToLowerCase(Trim(queryCtl)))

RECURSIVE IsSubsequence(_, _)
IsSubsequence(a, b) ==
  IF a = << >> THEN TRUE
  ELSE IF b = << >> THEN FALSE
  ELSE IF Head(a) = Head(b) THEN IsSubsequence(Tail(a), Tail(b))
  ELSE IsSubsequence(a, Tail(b))

\* C1: once the load has succeeded, state.publications is ordered
\* non-increasing by year, and two records sharing a year are in ascending
\* title order.  (Stated for every pair of records that both have a year.)
C1_SortedYearDescTitleAsc ==
  phase = "ready" =>
    \A i, j \in DOMAIN publications :
      (i < j /\ Has(publications[i], "year") /\ Has(publications[j], "year")) =>
        /\ publications[i].year >= publications[j].year
        /\ publications[i].year = publications[j].year =>
             localeCompare(publications[i].title, publications[j].title) <= 0

\* C2: applyFilters keeps a record of state.publications in state.filtered
\* if and only if it passes the year predicate and the text predicate, and
\* keeps nothing else.
C2_FilterKeepsExactlyPassing ==
  [][AppliesFilters =>
       /\ \A i \in DOMAIN publications' :
            (publications'[i] \in Range(filtered'))
              <=> Passes(publications'[i], yearVal', queryVal')
       /\ Range(filtered') \subseteq Range(publications')]_vars

\* C2 witness: a year and a query are both set and some, not all, records pass
C2_Witness ==
  /\ yearVal # EmptyStr
  /\ Trim(queryVal) # EmptyStr
  /\ debounce = 0
  /\ filtered # << >>
  /\ Len(filtered) < Len(publications)

\* C3: after the load state.filtered is always a subsequence of
\* state.publications (same records, same relative order), and
\* state.publications never changes again.
C3_FilteredSubsequenceFullListFrozen ==
  [][/\ phase' # "loading" => IsSubsequence(filtered', publications')
     /\ phase # "loading" => publications' = publications /\ pubIsArray' = pubIsArray]_vars

\* C3 witness: two of three records are shown while the modal is open
C3_Witness ==
  /\ Len(publications) = 3
  /\ Len(filtered) = 2
  /\ modal.ariaHidden = "false"

\* C4: what applyFilters leaves in state.filtered is the selection of the
\* full list by the current year and query values alone: with both empty it is
\* the full sorted list, and running it again on unchanged controls changes
\* nothing.
C4_FilterIsPureFunctionOfInputs ==
  [][AppliesFilters =>
       LET Keep(p) == Passes(p, yearVal', queryVal')
       IN  /\ filtered' = SelectSeq(publications', Keep)
           /\ (yearVal' = EmptyStr /\ Trim(queryVal') = EmptyStr)
                => filtered' = publications'
           /\ (yearVal' = yearVal /\ queryVal' = queryVal
                 /\ filtered = SelectSeq(publications, Keep))
                => filtered' = filtered]_vars

\* C4 witness (delegated): the filters have run at least once, the last time
\* with both controls empty, and the full list of several records is shown
C4_Witness ==
  /\ wrapperListeners >= 2
  /\ debounce = 0
  /\ yearVal = EmptyStr
  /\ queryVal = EmptyStr
  /\ Len(publications) >= 2
  /\ filtered = publications

\* C5: a load failure (rejected fetch, unparseable body, payload that is not an
\* array) ends with state.publications the empty list and no exception
\* escaping the handler.
C5_LoadFailureLeavesEmptyList ==
  [][(LoadFails \/ LoadNotArray) =>
       /\ pubIsArray'
       /\ publications' = << >>
       /\ phase' # "threw"]_vars

\* the overlay is visible
ModalOpen == modal.ariaHidden = "false"

\* the DOI link / the external link is displayed inside the modal
DoiShown ==
  modal.doiDisplay = "inline-block" \/ (modal.doiDisplay = "" /\ cssShowsDoi)
LinkShown == modal.linkDisplay = "inline-block"

\* C6: the overlay is visible iff page scroll is locked iff escToClose is
\* registered; a close button or Escape closes the modal and restores scroll
\* whatever number of openModal calls came before; Escape on the closed modal
\* changes nothing.
C6_ModalTwoStates ==
  [][/\ ModalOpen' <=> bodyOverflow' = "hidden"
     /\ ModalOpen' <=> escListener'
     /\ (CloseClick \/ (PressEscape /\ ModalOpen))
          => (~ModalOpen' /\ bodyOverflow' = "")
     /\ (PressEscape /\ ~ModalOpen) => UNCHANGED vars]_vars

\* C6 witness: closed again after openModal ran more than once (delegated)
C6_Witness ==
  /\ ~ModalOpen
  /\ bodyOverflow = ""
  /\ opened # << >>
  /\ trapHandlers >= 2

\* C7: activating a displayed card opens the modal with the record the card
\* displays; delegated: the index on every card identifies that record in
\* state.filtered.
CardIndexIdentifiesRecord ==
  variant = "delegated" =>
    \A i \in DOMAIN cards :
      /\ cards[i].paperIndex \in DOMAIN filtered
      /\ filtered[cards[i].paperIndex].id = cards[i].markup.shows

C7_ActivationOpensDisplayedRecord ==
  [][/\ CardIndexIdentifiesRecord'
     /\ \A i \in DOMAIN cards :
          (cards' = cards /\ ActivateCard(i)) =>
            /\ ModalOpen'
            /\ opened' # << >>
            /\ opened'[1].id = cards[i].markup.shows]_vars

\* C7 witness: the filters have hidden an earlier record and the modal is open
\* on a card whose position differs from its position in the full list
C7_Witness ==
  /\ ModalOpen
  /\ \E k \in DOMAIN filtered :
       /\ opened = <<filtered[k]>>
       /\ publications[k] # filtered[k]

\* the modal shows record r and nothing else: the text fields are r's, and a
\* displayed link points to r's DOI / r's link
ModalShowsOnly(r) ==
  /\ modal.title = r.title
  /\ modal.authors = OrEmpty(r, "authors")
  /\ modal.venue = VenueLine(r)
  /\ modal.abstract = OrEmpty(r, "abstract")
  /\ DoiShown =>
       /\ Has(r, "doi")
       /\ modal.doiHref \in {r.doi, DoiResolver \o r.doi}
  /\ LinkShown => (Has(r, "link") /\ modal.linkHref = r.link)

\* C8: the open modal reflects exactly the record last passed to openModal:
\* every visible field shows that record's value or is hidden.
C8_ModalReflectsOpenedRecord ==
  (ModalOpen /\ opened # << >>) => ModalShowsOnly(opened[1])

\* C9: while the modal is open for record r, the DOI link is shown iff r.doi
\* is present, pointing to r.doi if that is a URL and to the resolver URL of a
\* bare identifier, and the external link is shown iff r.link is present.
C9_LinksShownIffPresent ==
  (ModalOpen /\ opened # << >>) =>
    LET r == opened[1]
    IN  /\ DoiShown <=> Has(r, "doi")
        /\ Has(r, "doi") =>
             modal.doiHref =
               IF StartsWith(r.doi, <<"h", "t", "t", "p">>)
                 THEN r.doi
                 ELSE DoiResolver \o r.doi
        /\ LinkShown <=> Has(r, "link")
        /\ Has(r, "link") => modal.linkHref = r.link

\* text is the citation of record r: r's stored bibtex string, or, when r has
\* none, a string containing r's title and (if r has one) r's year
IsCitationOf(text, r) ==
  IF Has(r, "bibtex")
    THEN text = r.bibtex
    ELSE /\ Includes(text, r.title)
         /\ Has(r, "year") => Includes(text, NatToString(r.year))

\* C10: the copy action hands to the clipboard the citation of the record last
\* passed to openModal, and of no other record; a write that resolves puts
\* that text on the clipboard unmodified.
C10_CopyWritesOpenedCitation ==
  [][/\ CopyClick =>
          /\ opened # << >>
          /\ IsCitationOf(writes'[Len(writes')], opened[1])
          /\ \A a \in Range(publications) :
               a # opened[1] => ~IsCitationOf(writes'[Len(writes')], a)
     /\ WriteResolves => clipboard' = <<Head(writes)>>]_vars

\* C10 witness: a copy for the open record is in flight after the citation of
\* another record was copied
C10_Witness ==
  /\ ModalOpen
  /\ writes # << >>
  /\ IsCitationOf(writes[Len(writes)], opened[1])
  /\ clipboard # << >>
  /\ ~IsCitationOf(clipboard[1], opened[1])

\* the record card i displays
ShownRecord(i) ==
  CHOOSE p \in Range(publications) : p.id = cards[i].markup.shows

\* C11: every record field interpolated into markup that is assigned to
\* innerHTML (title, authors, abstract and year on a card, the year in an
\* option of the year selector) is the escapeHTML of the record's value.
C11_InterpolatedFieldsEscaped ==
  phase = "ready" =>
    /\ \A i \in DOMAIN cards :
         LET p == ShownRecord(i)
         IN  /\ cards[i].markup.title = escapeHTML(p.title)
             /\ cards[i].markup.meta = escapeHTML(OrEmpty(p, "authors"))
             /\ cards[i].markup.abstract = escapeHTML(OrEmpty(p, "abstract"))
             /\ cards[i].markup.year = escapeHTML(YearOrEmpty(p))
    /\ \A p \in Range(publications) :
         escapeHTML(YearString(p)) \in Range(yearOptions)

\* C12: a change or input event on the filter controls that arrives before
\* the load has settled runs neither applyFilters nor renderShelf and leaves
\* state.filtered alone (no debounced run is armed either); in part_000 a
\* failed fetch is terminal: from then on the controls stay without
\* listeners and the error placeholder stays in the shelf.
C12_ControlsInertUntilLoaded ==
  [][/\ (phase = "loading" /\ (ChangeYear \/ InputQuery))
          => UNCHANGED <<shelfVars, debounce, filtersOn>>
     /\ phase = "loading" => (~filtersOn /\ debounce = 0)
     /\ (variant = "delegated" /\ phase = "failed")
          => /\ shelf = "error" /\ shelf' = "error"
             /\ phase' = "failed"
             /\ UNCHANGED <<shelfVars, debounce, filtersOn, publications>>
             /\ ~filtersOn /\ debounce = 0]_vars

\* C12 witness: part_000 after a failed fetch, the query box edited, the
\* placeholder still there
C12_Witness ==
  /\ variant = "delegated"
  /\ phase = "failed"
  /\ Trim(queryVal) # EmptyStr
  /\ shelf = "error"
  /\ filtered = << >>

\* a shelf holding cards cs shows exactly the records of list, in order
ShelfShows(sh, cs, list) ==
  /\ sh = "cards"
  /\ Len(cs) = Len(list)
  /\ \A i \in DOMAIN cs : cs[i].markup = CardMarkup(list[i])

\* C13: once the controls are wired, right after every change event of the
\* year selector and every input event of the query box has been handled,
\* state.filtered is the filter of state.publications by the controls'
\* current values, and the shelf shows it.
C13_RecomputedOnEveryChange ==
  [][(filtersOn /\ (ChangeYear \/ InputQuery)) =>
       LET Keep(p) == Passes(p, yearVal', queryVal')
       IN  /\ filtered' = SelectSeq(publications', Keep)
           /\ ShelfShows(shelf', cards', filtered')]_vars

\* C14: one activation of a card calls openModal exactly once, however many
\* times renderShelf has run; in part_000, where every call attaches one
\* focus-trap closure, one activation attaches one.
C14_OneActivationOneOpen ==
  [][\A i \in DOMAIN cards :
       (ActivateCard(i) /\ ActivatedPaper(i) # << >>) =>
         /\ OpenModalCalls = 1
         /\ variant = "delegated"
              => trapHandlers' = Min(trapHandlers + 1, MaxTraps)]_vars

\* the text fields and the external link of modal m are those of record r
ModalTextOf(m, r) ==
  /\ m.title = r.title
  /\ m.authors = OrEmpty(r, "authors")
  /\ m.venue = VenueLine(r)
  /\ m.abstract = OrEmpty(r, "abstract")
  /\ m.linkDisplay = (IF Has(r, "link") THEN "inline-block" ELSE "none")
  /\ Has(r, "link") => m.linkHref = r.link

\* C15: the two variants are equivalent for card activation.  Both start
\* from the same loaded list (the step from "loading" to "ready" is the
\* successful load), and every year change, activation of the i-th
\* displayed card and close maps state.filtered, the shelf, the open/closed
\* state of the modal and the record it shows to values fixed by the values
\* before the event and the event alone, by the same rule in either variant:
\* the runs of the two variants on one input sequence agree step by step.
C15_VariantsAgreeOnActivation ==
  [][/\ (phase = "loading" /\ phase' = "ready") =>
          /\ filtered' = publications'
          /\ ShelfShows(shelf', cards', filtered')
          /\ ~ModalOpen' /\ opened' = << >>
     /\ (yearVal' # yearVal /\ ChangeYear) =>
          LET Keep(p) == Passes(p, yearVal', queryVal)
          IN  /\ filtered' = SelectSeq(publications, Keep)
              /\ ShelfShows(shelf', cards', filtered')
              /\ ModalOpen' = ModalOpen /\ opened' = opened
     /\ \A i \in DOMAIN cards :
          ActivateCard(i) =>
            /\ i \in DOMAIN filtered
            /\ filtered' = filtered /\ cards' = cards
            /\ ModalOpen'
            /\ opened' = <<filtered[i]>>
            /\ ModalTextOf(modal', filtered[i])
     /\ (CloseClick \/ PressEscape) =>
          /\ filtered' = filtered /\ cards' = cards
          /\ ~ModalOpen'
          /\ opened' = opened]_vars

\* C15 witness: part_000 after a year change, open on a record whose place in
\* the shelf differs from its place in the full list, openModal having run
\* more than once for it
C15_Witness ==
  /\ variant = "delegated"
  /\ yearVal # EmptyStr
  /\ wrapperListeners >= 2
  /\ trapHandlers >= 2
  /\ ModalOpen
  /\ \E k \in DOMAIN filtered :
       /\ opened = <<filtered[k]>>
       /\ publications[k] # filtered[k]
       /\ ModalTextOf(modal, filtered[k])

\* C16: in part_000 a focus-trap handler is attached to the modal exactly
\* while it is open: one is attached whenever the modal is open, and once
\* closeModal has run none registered by an earlier openModal is left.
C16_FocusTrapOnlyWhileOpen ==
  [][variant = "delegated" =>
       /\ ModalOpen' => trapHandlers' >= 1
       /\ (CloseClick \/ (PressEscape /\ ModalOpen)) => trapHandlers' = 0]_vars

\* C17: a clipboard write that succeeds puts the confirmation text on the
\* copy button, the confirmation text always gives way to "Copy BibTeX"
\* again, and a write that fails leaves the label as it is.
C17_ConfirmationShownThenReverted ==
  /\ [][WriteResolves => bibLabel' = "Copied"]_vars
  /\ [][WriteRejects => bibLabel' = bibLabel]_vars
  /\ (bibLabel = "Copied") ~> (bibLabel = "Copy BibTeX")

\* C17 witness: the confirmation is showing for a text that is on the
\* clipboard, its timeout still to expire
C17_Witness ==
  /\ bibLabel = "Copied"
  /\ timers > 0
  /\ clipboard # << >>
  /\ writes = << >>

\* C18: in every state where the modal is closed no record is bound to it:
\* the handler of the copy button captures none and the modal's fields hold
\* no record's text.
C18_NoRecordBoundWhileClosed ==
  ~ModalOpen =>
    /\ bibOnclick = << >>
    /\ modal.title = EmptyStr
    /\ modal.authors = EmptyStr
    /\ modal.venue = EmptyStr
    /\ modal.abstract = EmptyStr

\* state.filtered is the filter for the values the controls hold
FilteredUpToDate ==
  LET Keep(p) == Passes(p, yearVal, queryVal)
  IN  filtered = SelectSeq(publications, Keep)

\* C19: in part_000, with the controls wired, every input event of a burst
\* leaves exactly one timeout armed and does not run applyFilters; the expiry
\* of that timeout runs applyFilters once, for the controls' latest values,
\* and leaves none armed; an armed timeout always expires, after which
\* state.filtered is the filter for the latest values and stays so until
\* the next input event.
C19_BurstRunsFilterOnce ==
  /\ [][(variant = "delegated" /\ filtersOn /\ InputQuery)
          => (debounce' = 1 /\ UNCHANGED shelfVars)]_vars
  /\ [][DebounceFire
          => (debounce' = 0 /\ FilteredUpToDate'
              /\ ShelfShows(shelf', cards', filtered'))]_vars
  /\ [][(filtersOn /\ debounce = 0 /\ FilteredUpToDate /\ ~InputQuery)
          => (debounce' = 0 /\ FilteredUpToDate')]_vars
  /\ (debounce > 0) ~> (debounce = 0 /\ FilteredUpToDate)

\* C19 witness: part_000 with a query typed and its one debounced run done:
\* nothing is armed and the shelf is narrowed to the matching records
C19_Witness ==
  /\ variant = "delegated"
  /\ filtersOn
  /\ debounce = 0
  /\ Trim(queryVal) # EmptyStr
  /\ FilteredUpToDate
  /\ filtered # << >>
  /\ Len(filtered) < Len(publications)

\* C20: a revert callback changes the label of the copy button only to end
\* the confirmation of the copy that scheduled it: no timeout of a later
\* successful copy is still armed, and the modal is still open on the
\* record whose citation that copy put on the clipboard.
C20_RevertEndsOnlyOwnConfirmation ==
  [][(RevertLabel /\ bibLabel' # bibLabel) =>
       /\ timers' = 0
       /\ ModalOpen
       /\ opened # << >>
       /\ clipboard # << >>
       /\ IsCitationOf(clipboard[1], opened[1])]_vars

====
